---- MODULE Spec2Model ----
(***************************************************************************)
(* The cart, address-book and order-placement request handlers of the      *)
(* e-commerce backend, as concurrent request handlers over a document      *)
(* store.  Every handler is cut at its awaits: one action per store        *)
(* round trip, with the synchronous code that follows the await folded     *)
(* into the same action.  The repository holds two copies of its routes:   *)
(* src/routes/client.js with src/routes/admin.js, which src/server.js      *)
(* mounts, and src/unnamed/part_001 with src/unnamed/part_004.  `variant`  *)
(* says which copy the running server mounts.                              *)
(***************************************************************************)
EXTENDS Integers, Sequences, FiniteSets, TLC

VARIABLES
  variant,     \* which copy of the routes is mounted
  catalog,     \* Product collection: id -> [state, price]
  carts,       \* Cart collection, in insertion order; a cart's _id is its index
  addresses,   \* Address collection, in insertion order; _id is the index
  orders,      \* Order collection, in insertion order; _id is the index
  nextItemId,  \* next fresh _id of a cart line (subdocument ObjectId)
  req,         \* the request handlers in flight: slot -> handler frame
  last,        \* the last response sent: [op, user, status]
  added        \* history: units user u added of product p with a 200 write

vars == <<variant, catalog, carts, addresses, orders, nextItemId, req, last, added>>

-----------------------------------------------------------------------------
\* Bounds of the model

MaxItemIds == 2
MaxQuantity == 2
MaxAddresses == 4
MaxOrders == 2

-----------------------------------------------------------------------------
\* Domains

Variants == {"client", "part_001"}
Users == {"u1", "u2"}
Reqs == {"r1", "r2"}
ProductIds == {"p1", "p2"}
PriceInputs == {5}
AddressIds == 1..(MaxAddresses + 1)
ItemIds == 1..(MaxItemIds + 1)

\* req.body.quantity: absent, or a number
QuantityInputs == {[has |-> FALSE, val |-> 0]} \cup {[has |-> TRUE, val |-> q] : q \in 1..2}

\* the same, and the integers below 1 a client may pass
IntegerQuantityInputs ==
  QuantityInputs \cup {[has |-> TRUE, val |-> q] : q \in {-1, 0}}

\* const { productId, quantity = 1 } = req.body
DefaultQuantity(qin) == IF qin.has THEN qin.val ELSE 1

-----------------------------------------------------------------------------
\* Sequence helpers

RECURSIVE SumSeq(_)
SumSeq(s) == IF s = <<>> THEN 0 ELSE Head(s) + SumSeq(Tail(s))

\* first index of s whose element satisfies P, 0 when there is none
FirstIdx(s, P(_)) ==
  IF \E i \in DOMAIN s : P(s[i])
  THEN CHOOSE i \in DOMAIN s : P(s[i]) /\ \A j \in 1..(i - 1) : ~P(s[j])
  ELSE 0

-----------------------------------------------------------------------------
\* Handler frames

NullCart == [id |-> 0, items |-> <<>>, v |-> 0]

NoQuantity == [has |-> FALSE, val |-> 0]

\* a handler's frame: the request (user, body, params) and the handler's locals
Idle == [op |-> "idle", pc |-> "idle", user |-> "none", product |-> "none",
         quantity |-> NoQuantity, itemId |-> 0, addressId |-> 0, isDefault |-> FALSE,
         cart |-> NullCart, resolved |-> <<>>, orderId |-> 0]

InFlight(r) == req[r].op # "idle"

\* res.status(code).json(...): the handler ends and its slot is free again
Respond(r, code) ==
  /\ req' = [req EXCEPT ![r] = Idle]
  /\ last' = [op |-> req[r].op, user |-> req[r].user, status |-> code]

\* the same, for a handler that answers in the action that starts it
RespondAtOnce(op, u, code) ==
  /\ req' = req
  /\ last' = [op |-> op, user |-> u, status |-> code]

Goto(r, pc) == req' = [req EXCEPT ![r].pc = pc] /\ last' = last

-----------------------------------------------------------------------------
\* The document store, as Mongoose drives it

FindAnyCart(cs, u) == IF cs = <<>> THEN 0 ELSE 1

\* Cart.findOne({ user }): the _id of the user's first cart, 0 for null
FindCart(cs, u) == FirstIdx(cs, LAMBDA c : c.user = u)

\* the document findOne hands to the handler
LoadCart(cs, u) ==
  IF FindCart(cs, u) = 0 THEN NullCart
  ELSE [id |-> FindCart(cs, u), items |-> cs[FindCart(cs, u)].items,
        v |-> cs[FindCart(cs, u)].v]

\* the unique index on Cart.user: an insert for a user who has a cart is refused
CartInsertAllowed(cs, u) == \A i \in DOMAIN cs : cs[i].user # u

\* save() of a new Cart: insert the whole document
CartInsert(cs, u, items) == Append(cs, [user |-> u, items |-> items, v |-> 0])

\* save() sends the version in its filter for a $set below or of an array
VersionMatches(cs, id, v) == cs[id].v = v

\* save() after items.push(line): { $push: { items: line }, $inc: { __v: 1 } }, by _id alone
CartPush(cs, id, line) ==
  [cs EXCEPT ![id].items = Append(@, line), ![id].v = @ + 1]

\* save() after items[idx].quantity changed: { $set: { 'items.idx.quantity': q } }
CartSetQuantity(cs, id, idx, q) ==
  [cs EXCEPT ![id].items = [@ EXCEPT ![idx].quantity = q]]

\* save() after cart.items = array: { $set: { items: array }, $inc: { __v: 1 } }
CartSetItems(cs, id, items) ==
  [cs EXCEPT ![id].items = items, ![id].v = @ + 1]

ValidQuantityAny(q) == TRUE

\* the validator of a cart line's quantity, run by save(): a positive number
ValidQuantity(q) == q >= 1

\* Product.findById(id) / populate('items.product'): the price, or null
Live(cat, p) == p \in DOMAIN cat /\ cat[p].state = "live"

-----------------------------------------------------------------------------
\* The state after start-up: one product on sale, and each user's first
\* address on file (u1's is the default one); no cart, no order.

Init ==
  /\ variant \in Variants
  /\ catalog = [p \in ProductIds |->
                  IF p = "p1" THEN [state |-> "live", price |-> 10]
                  ELSE [state |-> "none", price |-> 0]]
  /\ carts = <<>>
  /\ addresses = <<[user |-> "u1", isDefault |-> TRUE],
                   [user |-> "u2", isDefault |-> FALSE]>>
  /\ orders = <<>>
  /\ nextItemId = 1
  /\ req = [r \in Reqs |-> Idle]
  /\ last = [op |-> "none", user |-> "none", status |-> 0]
  /\ added = [u \in Users |-> [p \in ProductIds |-> 0]]

-----------------------------------------------------------------------------
\* POST /cart

\* cart.items.find(item => item.product.toString() === productId)
ExistingItem(items, p) == FirstIdx(items, LAMBDA it : it.product = p)

\* the bound of the model on one more unit of p in u's cart: a fresh line
\* _id is left when the cart has no line of p, and the line stays in range
AddItemInBounds(u, p, q) ==
  /\ \/ nextItemId <= MaxItemIds
     \/ \E i \in DOMAIN carts : \E j \in DOMAIN carts[i].items :
           carts[i].user = u /\ carts[i].items[j].product = p
  /\ \A i \in DOMAIN carts : \A j \in DOMAIN carts[i].items :
        (carts[i].user = u /\ carts[i].items[j].product = p)
           => carts[i].items[j].quantity + q <= MaxQuantity

AddItemFrame(u, p, qin, pc, cart) ==
  [Idle EXCEPT !.op = "addItem", !.pc = pc, !.user = u, !.product = p,
               !.quantity = qin, !.cart = cart]

\* the handler up to and including its first await
AddItemStart(r, u, p, qin) ==
  /\ ~InFlight(r)
  /\ AddItemInBounds(u, p, DefaultQuantity(qin))
  /\ IF variant = "part_001"
     THEN \* await Product.findById(productId)
          IF ~Live(catalog, p)
          THEN RespondAtOnce("addItem", u, 404)
          ELSE /\ req' = [req EXCEPT ![r] =
                            AddItemFrame(u, p, qin, "findCart", NullCart)]
               /\ last' = last
     ELSE \* await Cart.findOne({ user })
          /\ req' = [req EXCEPT ![r] =
                       AddItemFrame(u, p, qin, "save", LoadCart(carts, u))]
          /\ last' = last
  /\ UNCHANGED <<variant, catalog, carts, addresses, orders, nextItemId, added>>

\* await Cart.findOne({ user }), after the product check of part_001
AddItemFindCart(r) ==
  /\ req[r].op = "addItem" /\ req[r].pc = "findCart"
  /\ req' = [req EXCEPT ![r].cart = LoadCart(carts, req[r].user), ![r].pc = "save"]
  /\ last' = last
  /\ UNCHANGED <<variant, catalog, carts, addresses, orders, nextItemId, added>>

IncrementedQuantityOverwrite(old, q) == q

\* existingItem.quantity += quantity
IncrementedQuantity(old, q) == old + q

\* cart.items.push({ product: productId, quantity })
NewLine(id, p, q) == [id |-> id, product |-> p, quantity |-> q]

\* the find / += / push between the read and the save, then await cart.save(),
\* which validates the line it is about to write and throws when that fails
AddItemSave(r) ==
  /\ req[r].op = "addItem" /\ req[r].pc = "save"
  /\ LET f == req[r]
         c == f.cart
         q == DefaultQuantity(f.quantity)
         idx == ExistingItem(c.items, f.product)
         Ok(cs, nid) ==
           /\ carts' = cs
           /\ nextItemId' = nid
           /\ added' = [added EXCEPT ![f.user][f.product] = @ + q]
           /\ Goto(r, "populate")
         Fail ==
           /\ Respond(r, 500)
           /\ UNCHANGED <<carts, nextItemId, added>>
     IN IF c.id = 0
        THEN \* new Cart({ user, items: [] }), push, insert
             IF ValidQuantity(q) /\ CartInsertAllowed(carts, f.user)
             THEN Ok(CartInsert(carts, f.user,
                                <<NewLine(nextItemId, f.product, q)>>),
                     nextItemId + 1)
             ELSE Fail
        ELSE IF idx # 0
        THEN IF /\ ValidQuantity(IncrementedQuantity(c.items[idx].quantity, q))
                /\ VersionMatches(carts, c.id, c.v)
             THEN Ok(CartSetQuantity(carts, c.id, idx,
                        IncrementedQuantity(c.items[idx].quantity, q)),
                     nextItemId)
             ELSE Fail
        ELSE IF ValidQuantity(q)
        THEN Ok(CartPush(carts, c.id, NewLine(nextItemId, f.product, q)),
                nextItemId + 1)
        ELSE Fail
  /\ UNCHANGED <<variant, catalog, addresses, orders>>

\* await cart.populate('items.product'); res.json(cart)
AddItemPopulate(r) ==
  /\ req[r].op = "addItem" /\ req[r].pc = "populate"
  /\ Respond(r, 200)
  /\ UNCHANGED <<variant, catalog, carts, addresses, orders, nextItemId, added>>

-----------------------------------------------------------------------------
\* DELETE /cart/:itemId

FilterOutUpTo(items, itemId) == SelectSeq(items, LAMBDA it : it.id > itemId)

\* cart.items.filter(item => item._id.toString() !== req.params.itemId)
FilterOut(items, itemId) == SelectSeq(items, LAMBDA it : it.id # itemId)

\* await Cart.findOne({ user }); 404 when there is no cart
RemoveItemStart(r, u, itemId) ==
  /\ ~InFlight(r)
  /\ IF FindCart(carts, u) = 0
     THEN RespondAtOnce("removeItem", u, 404)
     ELSE /\ req' = [req EXCEPT ![r] =
                       [Idle EXCEPT !.op = "removeItem", !.pc = "save", !.user = u,
                                    !.itemId = itemId, !.cart = LoadCart(carts, u)]]
          /\ last' = last
  /\ UNCHANGED <<variant, catalog, carts, addresses, orders, nextItemId, added>>

\* cart.items = filtered; await cart.save(); res.json(cart).  Assigning an
\* array equal to the loaded one marks nothing modified, and save() writes nothing.
RemoveItemSave(r) ==
  /\ req[r].op = "removeItem" /\ req[r].pc = "save"
  /\ LET c == req[r].cart
         kept == FilterOut(c.items, req[r].itemId)
     IN IF kept = c.items
        THEN Respond(r, 200) /\ carts' = carts
        ELSE IF VersionMatches(carts, c.id, c.v)
        THEN Respond(r, 200) /\ carts' = CartSetItems(carts, c.id, kept)
        ELSE Respond(r, 500) /\ carts' = carts
  /\ UNCHANGED <<variant, catalog, addresses, orders, nextItemId, added>>

-----------------------------------------------------------------------------
\* PUT /cart/:itemId/increase

\* cart.items.id(itemId): the index of the line with that _id, 0 for null
ItemById(items, itemId) == FirstIdx(items, LAMBDA it : it.id = itemId)

IncreaseItemInBounds(u, itemId) ==
  \A i \in DOMAIN carts : \A j \in DOMAIN carts[i].items :
     (carts[i].user = u /\ carts[i].items[j].id = itemId)
        => carts[i].items[j].quantity < MaxQuantity

\* await Cart.findOne({ user }); 404 for no cart, 404 for no such line
IncreaseItemStart(r, u, itemId) ==
  /\ ~InFlight(r)
  /\ IncreaseItemInBounds(u, itemId)
  /\ IF FindCart(carts, u) = 0
     THEN RespondAtOnce("increaseItem", u, 404)
     ELSE IF ItemById(LoadCart(carts, u).items, itemId) = 0
     THEN RespondAtOnce("increaseItem", u, 404)
     ELSE /\ req' = [req EXCEPT ![r] =
                       [Idle EXCEPT !.op = "increaseItem", !.pc = "save", !.user = u,
                                    !.itemId = itemId, !.cart = LoadCart(carts, u)]]
          /\ last' = last
  /\ UNCHANGED <<variant, catalog, carts, addresses, orders, nextItemId, added>>

\* item.quantity += 1
IncreasedQuantity(old) == old + 1

\* item.quantity += 1; await cart.save()
IncreaseItemSave(r) ==
  /\ req[r].op = "increaseItem" /\ req[r].pc = "save"
  /\ LET c == req[r].cart
         idx == ItemById(c.items, req[r].itemId)
     IN IF /\ ValidQuantity(IncreasedQuantity(c.items[idx].quantity))
           /\ VersionMatches(carts, c.id, c.v)
        THEN /\ carts' = CartSetQuantity(carts, c.id, idx,
                                         IncreasedQuantity(c.items[idx].quantity))
             /\ added' = [added EXCEPT ![req[r].user][c.items[idx].product] = @ + 1]
             /\ Goto(r, "populate")
        ELSE /\ Respond(r, 500)
             /\ UNCHANGED <<carts, added>>
  /\ UNCHANGED <<variant, catalog, addresses, orders, nextItemId>>

\* await cart.populate('items.product'); res.json(cart)
IncreaseItemPopulate(r) ==
  /\ req[r].op = "increaseItem" /\ req[r].pc = "populate"
  /\ Respond(r, 200)
  /\ UNCHANGED <<variant, catalog, carts, addresses, orders, nextItemId, added>>

-----------------------------------------------------------------------------
\* POST /address

\* req.body.isDefault: absent, true or false
IsDefaultInputs == {"omitted", "true", "false"}

\* isDefault || false, and the truth of if (isDefault)
OrFalse(din) == din = "true"

ClearDefaultsOfNone(as, u) == as

\* Address.updateMany({ user }, { isDefault: false })
ClearDefaults(as, u) ==
  [i \in DOMAIN as |-> IF as[i].user = u THEN [as[i] EXCEPT !.isDefault = FALSE]
                       ELSE as[i]]

\* new Address({ user, ..., isDefault: isDefault || false }); save()
InsertAddress(as, u, isDefault) == Append(as, [user |-> u, isDefault |-> isDefault])

\* the handler up to and including its first await: the updateMany when
\* isDefault is set, the insert otherwise
AddAddressStart(r, u, isDefault) ==
  /\ ~InFlight(r)
  /\ Len(addresses) < MaxAddresses
  /\ IF isDefault
     THEN /\ addresses' = ClearDefaults(addresses, u)
          /\ req' = [req EXCEPT ![r] =
                       [Idle EXCEPT !.op = "addAddress", !.pc = "save", !.user = u,
                                    !.isDefault = TRUE]]
          /\ last' = last
     ELSE /\ addresses' = InsertAddress(addresses, u, FALSE)
          /\ RespondAtOnce("addAddress", u, 201)
  /\ UNCHANGED <<variant, catalog, carts, orders, nextItemId, added>>

\* await address.save(); res.status(201)
AddAddressSave(r) ==
  /\ req[r].op = "addAddress" /\ req[r].pc = "save"
  /\ addresses' = InsertAddress(addresses, req[r].user, req[r].isDefault)
  /\ Respond(r, 201)
  /\ UNCHANGED <<variant, catalog, carts, orders, nextItemId, added>>

-----------------------------------------------------------------------------
\* POST /order

\* Address.findById(addressId): the _id when such an address exists, 0 for null
FindAddress(as, id) == IF id \in DOMAIN as THEN id ELSE 0

ResolveToZero(cat, items) ==
  [i \in DOMAIN items |->
     [found |-> TRUE,
      price |-> IF Live(cat, items[i].product) THEN cat[items[i].product].price ELSE 0]]

\* populate('items.product'): every line's product document, or null
Resolve(cat, items) ==
  [i \in DOMAIN items |->
     IF Live(cat, items[i].product)
     THEN [found |-> TRUE, price |-> cat[items[i].product].price]
     ELSE [found |-> FALSE, price |-> 0]]

\* cart.items.map(item => ({ product: item.product._id, quantity, price: item.product.price }))
OrderItems(items, resolved) ==
  [i \in DOMAIN items |->
     [product |-> items[i].product, quantity |-> items[i].quantity,
      price |-> resolved[i].price]]

TotalAmountOfPrices(items) ==
  SumSeq([i \in DOMAIN items |-> items[i].price])

\* items.reduce((sum, item) => sum + item.price * item.quantity, 0)
TotalAmount(items) ==
  SumSeq([i \in DOMAIN items |-> items[i].price * items[i].quantity])

\* new Order({ user, items, totalAmount, deliveryType, address }), with the
\* schema's default status
NewOrder(u, items, addressId) ==
  [user |-> u, items |-> items, totalAmount |-> TotalAmount(items),
   deliveryType |-> "standard", address |-> addressId, status |-> "pending"]

InsertOrderReplace(os, o) == <<o>>

\* order.save() of a new Order: insert the document
InsertOrder(os, o) == Append(os, o)

\* address.user.toString() !== req.user._id.toString(): only part_001 asks
OwnershipChecked(vr) == vr = "part_001"

OrderPcAfterClearFirst(vr, pc) ==
  CASE pc = "findAddress" -> IF vr = "part_001" THEN "qrCode" ELSE "saveCart"
    [] pc = "qrCode" -> "saveCart"
    [] pc = "saveCart" -> "saveOrder"
    [] pc = "saveOrder" -> "populateOrder"
    [] OTHER -> "populateOrder"

OrderPcAfterSaveFirst(vr, pc) ==
  CASE pc = "findAddress" -> "saveOrder"
    [] pc = "saveOrder" -> IF vr = "part_001" THEN "qrCode" ELSE "saveCart"
    [] pc = "qrCode" -> "saveCart"
    [] pc = "saveCart" -> "populateOrder"
    [] OTHER -> "populateOrder"

\* the order of the handler's awaits after the address is found
OrderPcAfter(vr, pc) ==
  CASE pc = "findAddress" -> IF vr = "part_001" THEN "qrCode" ELSE "saveOrder"
    [] pc = "qrCode" -> "saveOrder"
    [] pc = "saveOrder" -> "saveCart"
    [] pc = "saveCart" -> "populateOrder"
    [] OTHER -> "populateOrder"

IsEmptyCartNullOnly(c) == c.id = 0

\* !cart || cart.items.length === 0
IsEmptyCart(c) == c.id = 0 \/ Len(c.items) = 0

\* the bound of the model on one more order: a cart without lines makes none
PlaceOrderInBounds(u) ==
  Len(orders) < MaxOrders \/ LoadCart(carts, u).items = <<>>

\* await Cart.findOne({ user }): a null cart answers 400 without a populate
PlaceOrderStart(r, u, addressId) ==
  /\ ~InFlight(r)
  /\ PlaceOrderInBounds(u)
  /\ IF FindCart(carts, u) = 0
     THEN RespondAtOnce("placeOrder", u, 400)
     ELSE /\ req' = [req EXCEPT ![r] =
                       [Idle EXCEPT !.op = "placeOrder", !.pc = "populateCart",
                                    !.user = u, !.addressId = addressId,
                                    !.cart = LoadCart(carts, u)]]
          /\ last' = last
  /\ UNCHANGED <<variant, catalog, carts, addresses, orders, nextItemId, added>>

\* .populate('items.product'), then the empty-cart check
PlaceOrderPopulateCart(r) ==
  /\ req[r].op = "placeOrder" /\ req[r].pc = "populateCart"
  /\ IF IsEmptyCart(req[r].cart)
     THEN Respond(r, 400)
     ELSE /\ req' = [req EXCEPT ![r].resolved = Resolve(catalog, req[r].cart.items),
                                ![r].pc = "findAddress"]
          /\ last' = last
  /\ UNCHANGED <<variant, catalog, carts, addresses, orders, nextItemId, added>>

\* await Address.findById(addressId), the checks on it, and the items map,
\* which throws on a line whose product resolved to null
PlaceOrderFindAddress(r) ==
  /\ req[r].op = "placeOrder" /\ req[r].pc = "findAddress"
  /\ LET a == FindAddress(addresses, req[r].addressId)
     IN IF a = 0
        THEN Respond(r, 404)
        ELSE IF OwnershipChecked(variant) /\ addresses[a].user # req[r].user
        THEN Respond(r, 403)
        ELSE IF \E i \in DOMAIN req[r].resolved : ~req[r].resolved[i].found
        THEN Respond(r, 500)
        ELSE Goto(r, OrderPcAfter(variant, "findAddress"))
  /\ UNCHANGED <<variant, catalog, carts, addresses, orders, nextItemId, added>>

\* await QRCode.toDataURL(qrText): it resolves, or it throws
PlaceOrderQRCode(r) ==
  /\ req[r].op = "placeOrder" /\ req[r].pc = "qrCode"
  /\ \/ Goto(r, OrderPcAfter(variant, "qrCode"))
     \/ Respond(r, 500)
  /\ UNCHANGED <<variant, catalog, carts, addresses, orders, nextItemId, added>>

\* await order.save()
PlaceOrderSaveOrder(r) ==
  /\ req[r].op = "placeOrder" /\ req[r].pc = "saveOrder"
  /\ orders' = InsertOrder(orders,
                 NewOrder(req[r].user, OrderItems(req[r].cart.items, req[r].resolved),
                          req[r].addressId))
  /\ req' = [req EXCEPT ![r].orderId = IF @ = 0 THEN Len(orders) + 1 ELSE @,
                        ![r].pc = OrderPcAfter(variant, "saveOrder")]
  /\ last' = last
  /\ UNCHANGED <<variant, catalog, carts, addresses, nextItemId, added>>

\* cart.items = []; await cart.save()
PlaceOrderSaveCart(r) ==
  /\ req[r].op = "placeOrder" /\ req[r].pc = "saveCart"
  /\ LET c == req[r].cart
     IN IF VersionMatches(carts, c.id, c.v)
        THEN /\ carts' = CartSetItems(carts, c.id, <<>>)
             /\ Goto(r, OrderPcAfter(variant, "saveCart"))
        ELSE /\ Respond(r, 500)
             /\ carts' = carts
  /\ UNCHANGED <<variant, catalog, addresses, orders, nextItemId, added>>

\* await order.populate('items.product'); await order.populate('address');
\* res.status(201): two reads that change nothing, taken as one step
PlaceOrderPopulate(r) ==
  /\ req[r].op = "placeOrder" /\ req[r].pc = "populateOrder"
  /\ Respond(r, 201)
  /\ UNCHANGED <<variant, catalog, carts, addresses, orders, nextItemId, added>>

-----------------------------------------------------------------------------
\* GET /cart and GET /orders: one await each, a read that writes nothing

\* await Cart.findOne({ user }).populate('items.product'); { items: [] } for no cart
GetCart(r, u) ==
  /\ ~InFlight(r)
  /\ RespondAtOnce("getCart", u, 200)
  /\ UNCHANGED <<variant, catalog, carts, addresses, orders, nextItemId, added>>

\* await Order.find({ user }).populate('items.product').populate('address')
ListOrders(r, u) ==
  /\ ~InFlight(r)
  /\ RespondAtOnce("listOrders", u, 200)
  /\ UNCHANGED <<variant, catalog, carts, addresses, orders, nextItemId, added>>

-----------------------------------------------------------------------------
\* The middleware of the admin routes

\* what a request carries in its Authorization header: nothing, a token that
\* does not verify, a token of a user who is gone, a customer's, an admin's
Credentials == {"none", "invalid", "gone", "customer", "admin"}

NoUser == [found |-> FALSE, role |-> "none"]

\* auth: 401 without a Bearer header, for a token jwt.verify rejects and for
\* a user findById does not find; otherwise req.user is set and next() runs
AuthStatus(cred) == IF cred \in {"none", "invalid", "gone"} THEN 401 ELSE 0

ReqUser(cred) == IF AuthStatus(cred) = 0 THEN [found |-> TRUE, role |-> cred] ELSE NoUser

\* adminAuth: 401 without req.user, 403 for a role other than 'admin'
AdminAuthStatus(user) ==
  IF ~user.found THEN 401 ELSE IF user.role # "admin" THEN 403 ELSE 0

\* src/unnamed/part_004 mounts auth ahead of adminAuth, src/routes/admin.js
\* mounts adminAuth alone
AdminRoutesAuthenticate(vr) == vr = "part_001"

\* the status the middleware chain of an admin route answers, 0 when it
\* lets the request through to the handler
AdminGate(vr, cred) ==
  IF AdminRoutesAuthenticate(vr)
  THEN IF AuthStatus(cred) # 0 THEN AuthStatus(cred)
       ELSE AdminAuthStatus(ReqUser(cred))
  ELSE AdminAuthStatus(NoUser)

-----------------------------------------------------------------------------
\* The admin's catalog routes: one await each

\* POST /products: new Product({ ..., price }); save()
CreateProduct(cred, p, price) ==
  /\ catalog[p].state = "none"
  /\ IF AdminGate(variant, cred) # 0
     THEN /\ catalog' = catalog
          /\ last' = [op |-> "createProduct", user |-> cred,
                      status |-> AdminGate(variant, cred)]
     ELSE /\ catalog' = [catalog EXCEPT ![p] = [state |-> "live", price |-> price]]
          /\ last' = [op |-> "createProduct", user |-> cred, status |-> 201]
  /\ UNCHANGED <<variant, carts, addresses, orders, nextItemId, req, added>>

\* DELETE /products/:id: Product.findByIdAndDelete(id), 404 when it finds none
DeleteProduct(cred, p) ==
  /\ IF AdminGate(variant, cred) # 0
     THEN /\ catalog' = catalog
          /\ last' = [op |-> "deleteProduct", user |-> cred,
                      status |-> AdminGate(variant, cred)]
     ELSE IF Live(catalog, p)
     THEN /\ catalog' = [catalog EXCEPT ![p].state = "deleted"]
          /\ last' = [op |-> "deleteProduct", user |-> cred, status |-> 200]
     ELSE /\ catalog' = catalog
          /\ last' = [op |-> "deleteProduct", user |-> cred, status |-> 404]
  /\ UNCHANGED <<variant, carts, addresses, orders, nextItemId, req, added>>

-----------------------------------------------------------------------------
\* The server process dies between two awaits of a handler: the handler's
\* frame is lost, whatever it wrote to the store stays, no response is sent.

Crash(r) ==
  /\ InFlight(r)
  /\ req' = [req EXCEPT ![r] = Idle]
  /\ UNCHANGED <<variant, catalog, carts, addresses, orders, nextItemId, last, added>>

-----------------------------------------------------------------------------

\* The steps of the client handlers running in the slots R for the users U

AddSteps(R, U, P, Q) ==
  \/ \E r \in R, u \in U, p \in P, qin \in Q :
        AddItemStart(r, u, p, qin)
  \/ \E r \in R : AddItemFindCart(r)
  \/ \E r \in R : AddItemSave(r)
  \/ \E r \in R : AddItemPopulate(r)

IncreaseSteps(R, U) ==
  \/ \E r \in R, u \in U, i \in ItemIds : IncreaseItemStart(r, u, i)
  \/ \E r \in R : IncreaseItemSave(r)
  \/ \E r \in R : IncreaseItemPopulate(r)

RemoveSteps(R, U) ==
  \/ \E r \in R, u \in U, i \in ItemIds : RemoveItemStart(r, u, i)
  \/ \E r \in R : RemoveItemSave(r)

AddressSteps(R, U) ==
  \/ \E r \in R, u \in U, din \in IsDefaultInputs : AddAddressStart(r, u, OrFalse(din))
  \/ \E r \in R : AddAddressSave(r)

OrderSteps(R, U, A) ==
  \/ \E r \in R, u \in U, a \in A : PlaceOrderStart(r, u, a)
  \/ \E r \in R : PlaceOrderPopulateCart(r)
  \/ \E r \in R : PlaceOrderFindAddress(r)
  \/ \E r \in R : PlaceOrderQRCode(r)
  \/ \E r \in R : PlaceOrderSaveOrder(r)
  \/ \E r \in R : PlaceOrderSaveCart(r)
  \/ \E r \in R : PlaceOrderPopulate(r)

ReadSteps(R, U) ==
  \/ \E r \in R, u \in U : GetCart(r, u)
  \/ \E r \in R, u \in U : ListOrders(r, u)

CatalogSteps(C) ==
  \/ \E cred \in C, p \in ProductIds, price \in PriceInputs : CreateProduct(cred, p, price)
  \/ \E cred \in C, p \in ProductIds : DeleteProduct(cred, p)

\* Any number of requests of any user, two at a time
Next ==
  \/ AddSteps(Reqs, Users, ProductIds, QuantityInputs)
  \/ IncreaseSteps(Reqs, Users)
  \/ RemoveSteps(Reqs, Users)
  \/ AddressSteps(Reqs, Users)
  \/ OrderSteps(Reqs, Users, AddressIds)
  \/ ReadSteps(Reqs, Users)
  \/ CatalogSteps(Credentials)
  \/ \E r \in Reqs : Crash(r)

Spec == Init /\ [][Next]_vars

\* One request of u1 at a time, of the cart and order routes: every handler runs
\* from its first await to its response before the next request is taken
OrderSeqNext ==
  \/ AddSteps({"r1"}, {"u1"}, ProductIds, QuantityInputs)
  \/ IncreaseSteps({"r1"}, {"u1"})
  \/ OrderSteps({"r1"}, {"u1"}, AddressIds)
  \/ CatalogSteps({"admin"})

SpecOrderSeq == Init /\ [][OrderSeqNext]_vars

\* One request of u1 at a time, of the cart routes
CartSeqNext ==
  \/ AddSteps({"r1"}, {"u1"}, ProductIds, QuantityInputs)
  \/ IncreaseSteps({"r1"}, {"u1"})
  \/ RemoveSteps({"r1"}, {"u1"})
  \/ CatalogSteps({"admin"})

SpecCartSeq == Init /\ [][CartSeqNext]_vars

\* Two placeOrder of u1 at a time, or one next to an addItem of u1, with
\* u1's own address, and crashes
OrderRaceNext ==
  \/ AddSteps({"r1"}, {"u1"}, ProductIds, {NoQuantity})
  \/ OrderSteps(Reqs, {"u1"}, {1})
  \/ \E r \in Reqs : Crash(r)

SpecOrderRace == Init /\ [][OrderRaceNext]_vars

\* An addItem or increaseItem of u1 in one slot, a placeOrder of u1 in the other
AddVsOrderNext ==
  \/ AddSteps({"r1"}, {"u1"}, {"p1"}, {NoQuantity})
  \/ IncreaseSteps({"r1"}, {"u1"})
  \/ OrderSteps({"r2"}, {"u1"}, {1})

SpecAddVsOrder == Init /\ [][AddVsOrderNext]_vars

\* Two requests of u1 at a time, of the add route
CartRaceNext == AddSteps(Reqs, {"u1"}, ProductIds, {NoQuantity})

SpecCartRace == Init /\ [][CartRaceNext]_vars

NoneInFlight(op) == \A r \in Reqs : req[r].op # op

\* Two increaseItem of u1 at a time, and addItem one at a time while no
\* increaseItem runs
IncreaseRaceNext ==
  \/ NoneInFlight("increaseItem") /\ AddSteps({"r1"}, {"u1"}, ProductIds, {NoQuantity})
  \/ NoneInFlight("addItem") /\ IncreaseSteps(Reqs, {"u1"})

SpecIncreaseRace == Init /\ [][IncreaseRaceNext]_vars

\* Two requests at a time, of the address route
AddressRaceNext == AddressSteps(Reqs, Users)

SpecAddressRace == Init /\ [][AddressRaceNext]_vars

\* One request of u1 at a time, of the routes that write (add, remove,
\* address, order), next to the admin's catalog routes
ShopSeqNext ==
  \/ AddSteps({"r1"}, {"u1"}, {"p1"}, {NoQuantity})
  \/ RemoveSteps({"r1"}, {"u1"})
  \/ AddressSteps({"r1"}, {"u1"})
  \/ OrderSteps({"r1"}, {"u1"}, {1})
  \/ CatalogSteps({"admin"})

SpecShopSeq == Init /\ [][ShopSeqNext]_vars

\* One request at a time, of either user, of the address route and the reads
AddressSeqNext ==
  \/ AddressSteps({"r1"}, Users)
  \/ ReadSteps({"r1"}, Users)

SpecAddressSeq == Init /\ [][AddressSeqNext]_vars

\* The admin's catalog routes under every kind of credentials, next to one
\* addItem of u1 at a time
CatalogNext ==
  \/ CatalogSteps(Credentials)
  \/ AddSteps({"r1"}, {"u1"}, ProductIds, {NoQuantity})

SpecCatalog == Init /\ [][CatalogNext]_vars

\* One request of u1 at a time, of the cart routes and the order route, with
\* every integer quantity
QuantityNext ==
  \/ AddSteps({"r1"}, {"u1"}, ProductIds, IntegerQuantityInputs)
  \/ IncreaseSteps({"r1"}, {"u1"})
  \/ RemoveSteps({"r1"}, {"u1"})
  \/ OrderSteps({"r1"}, {"u1"}, {1})

SpecQuantity == Init /\ [][QuantityNext]_vars

\* One request at a time: every client route for u1, the add and order
\* routes for u2
FrameNext ==
  \/ AddSteps({"r1"}, Users, {"p1"}, {NoQuantity})
  \/ IncreaseSteps({"r1"}, {"u1"})
  \/ RemoveSteps({"r1"}, {"u1"})
  \/ AddressSteps({"r1"}, {"u1"})
  \/ OrderSteps({"r1"}, Users, {2})
  \/ ReadSteps({"r1"}, {"u1"})

SpecFrame == Init /\ [][FrameNext]_vars

-----------------------------------------------------------------------------
\* What the claims speak of

\* the lines of u's cart in the store, none when u has no cart
CartLines(cs, u) == IF FindCart(cs, u) = 0 THEN <<>> ELSE cs[FindCart(cs, u)].items

StoreUnchanged == UNCHANGED <<carts, addresses, orders>>

\* C1: a placeOrder that succeeds persists an Order whose items are the
\* lines of the caller's cart (product and quantity) priced from the catalog,
\* whose totalAmount is the sum of quantity * price over them and whose status
\* is 'pending'; when it answers 201 the caller's cart still exists and has no
\* line.
C1_OrderFromCart ==
  [][\A r \in Reqs :
       /\ (req[r].op = "placeOrder" /\ req'[r] # req[r]
             /\ Len(orders') = Len(orders) + 1) =>
            LET o == orders'[Len(orders')]
                lines == CartLines(carts, req[r].user)
            IN /\ o.user = req[r].user
               /\ o.status = "pending"
               /\ o.address = req[r].addressId
               /\ Len(lines) >= 1
               /\ Len(o.items) = Len(lines)
               /\ \A i \in DOMAIN lines :
                    /\ o.items[i].product = lines[i].product
                    /\ o.items[i].quantity = lines[i].quantity
                    /\ o.items[i].price = catalog[lines[i].product].price
               /\ o.totalAmount =
                    SumSeq([i \in DOMAIN lines |->
                              lines[i].quantity * catalog[lines[i].product].price])
       /\ (req[r].op = "placeOrder" /\ req'[r] = Idle
             /\ last' = [op |-> "placeOrder", user |-> req[r].user, status |-> 201]) =>
            /\ req[r].orderId \in DOMAIN orders'
            /\ orders'[req[r].orderId].user = req[r].user
            /\ FindCart(carts', req[r].user) # 0
            /\ CartLines(carts', req[r].user) = <<>>
  ]_vars

\* the scenario of the specification: two of p1 at 10 and one of p2 at 5 make
\* an order of 25 with two items, and the cart is left without lines
C1_Witness ==
  /\ last = [op |-> "placeOrder", user |-> "u1", status |-> 201]
  /\ Len(orders) = 1
  /\ orders[1].user = "u1"
  /\ addresses[orders[1].address].user = "u1"
  /\ Len(orders[1].items) = 2
  /\ orders[1].totalAmount = 25
  /\ orders[1].status = "pending"
  /\ FindCart(carts, "u1") # 0
  /\ CartLines(carts, "u1") = <<>>

\* C2: a placeOrder whose addressId resolves to an address of another user
\* answers 403, persists no Order and leaves the carts as they are; so no
\* stored Order references an address whose owner is not the Order's user.
C2_ForeignAddressForbidden ==
  /\ [][\A r \in Reqs :
          (/\ req[r].op = "placeOrder" /\ req[r].pc = "findAddress"
           /\ req'[r] # req[r]
           /\ req[r].addressId \in DOMAIN addresses
           /\ addresses[req[r].addressId].user # req[r].user) =>
             /\ req'[r] = Idle
             /\ last' = [op |-> "placeOrder", user |-> req[r].user, status |-> 403]
             /\ orders' = orders
             /\ carts' = carts
     ]_vars
  /\ [](\A i \in DOMAIN orders :
          orders[i].address \in DOMAIN addresses
             => addresses[orders[i].address].user = orders[i].user)

\* a placeOrder request of u reaches its first await in this step
C8_Arrives(u) ==
  \/ \E r \in Reqs : ~InFlight(r) /\ req'[r].op = "placeOrder" /\ req'[r].user = u
  \/ req' = req /\ last' # last /\ last'.op = "placeOrder" /\ last'.user = u

\* C8: a placeOrder of a user without a cart, or with a cart without lines,
\* answers 400 whatever the addressId, persists no Order and changes neither
\* carts nor addresses.
C8_EmptyCartRejected ==
  [][\A u \in Users :
       /\ (C8_Arrives(u) /\ FindCart(carts, u) = 0) =>
            /\ req' = req
            /\ last' = [op |-> "placeOrder", user |-> u, status |-> 400]
            /\ StoreUnchanged
       /\ (C8_Arrives(u) /\ FindCart(carts, u) # 0 /\ CartLines(carts, u) = <<>>) =>
            /\ \E r \in Reqs : /\ req'[r].op = "placeOrder"
                               /\ req'[r].pc = "populateCart"
                               /\ req'[r].cart.items = <<>>
            /\ StoreUnchanged
       /\ \A r \in Reqs :
            (/\ req[r].op = "placeOrder" /\ req[r].user = u
             /\ req[r].pc = "populateCart" /\ req[r].cart.items = <<>>
             /\ req'[r] # req[r]) =>
               /\ req'[r] = Idle
               /\ last' = [op |-> "placeOrder", user |-> u, status |-> 400]
               /\ StoreUnchanged
  ]_vars

\* u1's cart exists without a line (an order emptied it), and the placeOrder
\* that followed was answered 400
C8_Witness ==
  /\ last = [op |-> "placeOrder", user |-> "u1", status |-> 400]
  /\ FindCart(carts, "u1") # 0
  /\ CartLines(carts, "u1") = <<>>
  /\ Len(orders) = 1

\* the units of p in the lines of u's cart
CartQuantity(u, p) ==
  SumSeq([j \in DOMAIN CartLines(carts, u) |->
            IF CartLines(carts, u)[j].product = p
            THEN CartLines(carts, u)[j].quantity ELSE 0])

\* the units of p in the items of u's orders
OrderedQuantity(u, p) ==
  SumSeq([i \in DOMAIN orders |->
            IF orders[i].user = u
            THEN SumSeq([j \in DOMAIN orders[i].items |->
                           IF orders[i].items[j].product = p
                           THEN orders[i].items[j].quantity ELSE 0])
            ELSE 0])

Quiescent == \A r \in Reqs : ~InFlight(r)

\* C3: whenever a placeOrder empties the cart, its Order is already in the
\* store, with the lines the handler read; and an Order in the store stays
\* there unchanged, whatever crashes.
C3_NeverClearBeforePersist ==
  [][/\ \A r \in Reqs :
          (req[r].op = "placeOrder" /\ req'[r] # req[r] /\ carts' # carts) =>
             /\ req[r].orderId \in DOMAIN orders
             /\ orders[req[r].orderId].user = req[r].user
             /\ Len(orders[req[r].orderId].items) = Len(req[r].cart.items)
             /\ \A i \in DOMAIN req[r].cart.items :
                  /\ orders[req[r].orderId].items[i].product = req[r].cart.items[i].product
                  /\ orders[req[r].orderId].items[i].quantity = req[r].cart.items[i].quantity
     /\ \A i \in DOMAIN orders : i \in DOMAIN orders' /\ orders'[i] = orders[i]
  ]_vars

\* a placeOrder has emptied the cart and has not answered yet: its Order is stored
C3_Witness ==
  \E r \in Reqs :
     /\ req[r].op = "placeOrder" /\ req[r].pc = "populateOrder"
     /\ req[r].orderId \in DOMAIN orders
     /\ FindCart(carts, req[r].user) # 0
     /\ CartLines(carts, req[r].user) = <<>>

\* C4: when an addItem or increaseItem of a user interleaves with a
\* placeOrder of the same user, then once both have ended every unit the user
\* added is in a line of the cart or in an item of an order.
C4_NoAddedUnitLost ==
  Quiescent =>
     \A u \in Users, p \in ProductIds :
        added[u][p] <= CartQuantity(u, p) + OrderedQuantity(u, p)

\* C5: whatever the interleaving of a user's placeOrder calls, the units of a
\* product in the user's orders never exceed the units the user added.
C5_NoDuplicateOrder ==
  \A u \in Users, p \in ProductIds : OrderedQuantity(u, p) <= added[u][p]

\* C6: whatever the interleaving of n increaseItem calls that succeed on a
\* line nothing else touches, the line ends with its quantity raised by n.
C6_NoLostIncrease ==
  Quiescent =>
     \A u \in Users, p \in ProductIds : CartQuantity(u, p) = added[u][p]

\* C7: in every reachable state every user has at most one address with isDefault.
C7_AtMostOneDefault ==
  \A u \in Users :
     Cardinality({i \in DOMAIN addresses :
                    addresses[i].user = u /\ addresses[i].isDefault}) <= 1

\* the lines of product p among items
LinesOf(items, p) == SelectSeq(items, LAMBDA it : it.product = p)

\* C9: an addItem that runs alone leaves exactly one line of its product in
\* the caller's cart, with the quantity the product had there before plus the
\* quantity passed (1 when none is passed), and the lines of the other products
\* as they were; so a series of them adds up.
C9_AddItemAccumulates ==
  [][\A r \in Reqs :
       (req[r].op = "addItem" /\ req[r].pc = "save" /\ req'[r].pc = "populate") =>
          LET u == req[r].user
              p == req[r].product
              passed == IF req[r].quantity.has THEN req[r].quantity.val ELSE 1
              before == CartLines(carts, u)
              after == CartLines(carts', u)
          IN /\ Len(LinesOf(after, p)) = 1
             /\ LinesOf(after, p)[1].quantity =
                  passed + SumSeq([j \in DOMAIN LinesOf(before, p) |->
                                     LinesOf(before, p)[j].quantity])
             /\ \A o \in ProductIds \ {p} : LinesOf(after, o) = LinesOf(before, o)
  ]_vars

\* the second addItem of a series: the handler found the product's line with
\* quantity 1 and has written quantity 2 to it, next to a line of another product
C9_Witness ==
  \E r \in Reqs :
     /\ req[r].op = "addItem" /\ req[r].pc = "populate"
     /\ LinesOf(req[r].cart.items, req[r].product) # <<>>
     /\ LinesOf(req[r].cart.items, req[r].product)[1].quantity = 1
     /\ Len(LinesOf(CartLines(carts, req[r].user), req[r].product)) = 1
     /\ LinesOf(CartLines(carts, req[r].user), req[r].product)[1].quantity = 2
     /\ Len(CartLines(carts, req[r].user)) = 2

\* C10: in every reachable state every user has at most one cart and every
\* cart has at most one line per product.
C10_OneCartOneLinePerProduct ==
  /\ \A u \in Users : Cardinality({i \in DOMAIN carts : carts[i].user = u}) <= 1
  /\ \A i \in DOMAIN carts : \A p \in ProductIds :
        Len(LinesOf(carts[i].items, p)) <= 1

\* a removeItem request of u reaches its first await in this step
C11_Arrives(u) ==
  \/ \E r \in Reqs : ~InFlight(r) /\ req'[r].op = "removeItem" /\ req'[r].user = u
  \/ req' = req /\ last' # last /\ last'.op = "removeItem" /\ last'.user = u

\* C11: a removeItem that runs alone on an existing cart answers 200 and
\* leaves the cart with its lines but the one of the itemId passed, so with
\* all of them when the itemId matches none; the cart it leaves is the cart a
\* second removeItem of the same itemId leaves; and a removeItem answers 404
\* exactly when the caller has no cart.
C11_RemoveItemIdempotent ==
  [][/\ \A r \in Reqs :
          (req[r].op = "removeItem" /\ req[r].pc = "save" /\ req'[r] # req[r]) =>
             LET u == req[r].user
                 id == req[r].itemId
                 before == CartLines(carts, u)
                 after == CartLines(carts', u)
             IN /\ last' = [op |-> "removeItem", user |-> u, status |-> 200]
                /\ FindCart(carts', u) = FindCart(carts, u)
                /\ after = SelectSeq(before, LAMBDA it : it.id # id)
                /\ (\A j \in DOMAIN before : before[j].id # id) => after = before
                /\ SelectSeq(after, LAMBDA it : it.id # id) = after
                /\ \A i \in DOMAIN carts : carts[i].user # u => carts'[i] = carts[i]
     /\ \A u \in Users :
          C11_Arrives(u) =>
             /\ carts' = carts
             /\ (FindCart(carts, u) = 0) <=>
                   (req' = req /\ last' = [op |-> "removeItem", user |-> u, status |-> 404])
  ]_vars

\* a removeItem was answered 200 and every line ever pushed is still in the
\* cart: its itemId matched no line of it
C11_Witness ==
  /\ last = [op |-> "removeItem", user |-> "u1", status |-> 200]
  /\ Len(CartLines(carts, "u1")) = 2
  /\ nextItemId = 3

\* C12: an Order in the store keeps its items (product, quantity, price) and
\* its totalAmount through every later step (catalog changes, cart changes,
\* new addresses, further orders) and is never removed: the price in it is the
\* copy made when the order was placed.
C12_OrdersImmutable ==
  [][/\ Len(orders') >= Len(orders)
     /\ \A i \in DOMAIN orders :
          /\ orders'[i].items = orders[i].items
          /\ orders'[i].totalAmount = orders[i].totalAmount
          /\ orders'[i].user = orders[i].user
  ]_vars

\* an order of p1 at 10 is in the store, p1 has since left the catalog, the
\* cart has a line again and a second order was placed after the first
C12_Witness ==
  /\ Len(orders) = 2
  /\ orders[1].items[1].product = "p1" /\ orders[1].items[1].price = 10
  /\ orders[1].totalAmount = 10
  /\ catalog["p1"].state = "deleted"
  /\ Len(addresses) > 2
  /\ CartLines(carts, "u1") # <<>>

\* C13: a placeOrder reaches the QR code generation with no Order of its own
\* in the store and the cart as it read it; when the generation fails the
\* request is answered with an error (500), no Order is persisted and the carts
\* stay as they are.
C13_QRFailureFailsClosed ==
  [][\A r \in Reqs :
       (req[r].op = "placeOrder" /\ req[r].pc = "qrCode" /\ req'[r] # req[r]) =>
          /\ req[r].orderId = 0
          /\ CartLines(carts, req[r].user) = req[r].cart.items
          /\ req'[r] = Idle =>
               /\ last' = [op |-> "placeOrder", user |-> req[r].user, status |-> 500]
               /\ orders' = orders
               /\ carts' = carts
               /\ CartLines(carts', req[r].user) # <<>>
  ]_vars

\* a placeOrder of the route copy that makes a QR code was answered 500 although
\* its address is the caller's and the only product ever on sale still is: the
\* QR code generation failed; no order is stored and the cart has its lines
C13_Witness ==
  /\ variant = "part_001"
  /\ last = [op |-> "placeOrder", user |-> "u1", status |-> 500]
  /\ catalog["p1"].state = "live" /\ catalog["p2"].state = "none"
  /\ orders = <<>>
  /\ Len(CartLines(carts, "u1")) = 1
  /\ CartLines(carts, "u1")[1].quantity = 2

\* the addresses of u with isDefault set
DefaultsOf(as, u) == {i \in DOMAIN as : as[i].user = u /\ as[i].isDefault}

\* C14: an addAddress with isDefault true that runs alone stores an address B
\* of the caller and leaves B the caller's only default address; an addAddress
\* with isDefault false or omitted stores a non-default address and leaves
\* every existing address as it was; and no step of an addAddress changes an
\* address of another user.
C14_DefaultSwap ==
  [][/\ \A r \in Reqs :
          (req[r].op = "addAddress" /\ req[r].pc = "save" /\ req'[r] # req[r]) =>
             LET u == req[r].user
                 B == Len(addresses) + 1
             IN /\ req[r].isDefault
                /\ last' = [op |-> "addAddress", user |-> u, status |-> 201]
                /\ Len(addresses') = B
                /\ addresses'[B] = [user |-> u, isDefault |-> TRUE]
                /\ DefaultsOf(addresses', u) = {B}
                /\ \A i \in DOMAIN addresses :
                     addresses[i].user # u => addresses'[i] = addresses[i]
     /\ \A r \in Reqs :
          (~InFlight(r) /\ req'[r].op = "addAddress") =>
             /\ req'[r].isDefault
             /\ Len(addresses') = Len(addresses)
             /\ \A i \in DOMAIN addresses :
                  /\ addresses'[i].user = addresses[i].user
                  /\ addresses[i].user # req'[r].user => addresses'[i] = addresses[i]
     /\ (req' = req /\ last'.op = "addAddress" /\ addresses' # addresses) =>
          /\ last'.status = 201
          /\ Len(addresses') = Len(addresses) + 1
          /\ addresses'[Len(addresses')] = [user |-> last'.user, isDefault |-> FALSE]
          /\ \A i \in DOMAIN addresses : addresses'[i] = addresses[i]
  ]_vars

\* u2 made its second address the default, then u1, whose first address was
\* the default, did the same: u1's default is the new address, u2's is untouched
C14_Witness ==
  /\ last = [op |-> "addAddress", user |-> "u1", status |-> 201]
  /\ addresses = <<[user |-> "u1", isDefault |-> FALSE],
                   [user |-> "u2", isDefault |-> FALSE],
                   [user |-> "u2", isDefault |-> TRUE],
                   [user |-> "u1", isDefault |-> TRUE]>>

\* C15: a product create or delete request is carried out exactly when its
\* credentials are a valid token of an admin (201 on create, 200 on the delete
\* of a product on sale); a customer's request is answered 403, a request
\* without a valid token of an existing user 401, and a rejected request
\* leaves the catalog as it is.
C15_AdminOnlyCatalog ==
  [][(/\ last'.op \in {"createProduct", "deleteProduct"}
      /\ req' = req
      /\ last' # last \/ catalog' # catalog) =>
        LET cred == last'.user
        IN /\ cred = "admin" =>
                /\ last'.status \in {201, 200, 404}
                /\ last'.status = 201 <=> last'.op = "createProduct"
                /\ last'.status \in {201, 200} <=> catalog' # catalog
           /\ cred = "customer" => last'.status = 403 /\ catalog' = catalog
           /\ cred \in {"none", "invalid", "gone"} =>
                last'.status = 401 /\ catalog' = catalog
  ]_vars

\* C16: a placeOrder whose cart holds a line of a product that does not
\* resolve in the catalog when the cart is populated ends with an error
\* response, persists no Order and leaves the carts as they are; this holds
\* for every such placeOrder, so the failure repeats while the line is there.
C16_DanglingProductFailsOrder ==
  [][\A r \in Reqs :
       (req[r].op = "placeOrder" /\ req'[r] # req[r]) =>
          /\ (/\ req[r].pc = "populateCart"
              /\ \E j \in DOMAIN req[r].cart.items :
                    ~Live(catalog, req[r].cart.items[j].product)) =>
                /\ req'[r].pc = "findAddress"
                /\ \E j \in DOMAIN req'[r].resolved : ~req'[r].resolved[j].found
                /\ StoreUnchanged
          /\ (\E j \in DOMAIN req[r].resolved : ~req[r].resolved[j].found) =>
                /\ req'[r] = Idle
                /\ last'.op = "placeOrder" /\ last'.user = req[r].user
                /\ last'.status \in {403, 404, 500}
                /\ StoreUnchanged
                /\ CartLines(carts', req[r].user) = req[r].cart.items
  ]_vars

\* the route copy without the existence check took a line of a product that
\* never was in the catalog; the placeOrder that followed was answered 500,
\* no order is stored and the line is still in the cart
C16_Witness ==
  /\ variant = "client"
  /\ last = [op |-> "placeOrder", user |-> "u1", status |-> 500]
  /\ catalog["p2"].state = "none"
  /\ orders = <<>>
  /\ \E j \in DOMAIN CartLines(carts, "u1") : CartLines(carts, "u1")[j].product = "p2"

\* C17: in every reachable state every line of every cart has a quantity of
\* at least 1, whatever integer the addItem calls passed; and every item of
\* every order has a quantity of at least 1 and every order a totalAmount of
\* at least 0.
C17_PositiveQuantity ==
  /\ \A i \in DOMAIN carts : \A j \in DOMAIN carts[i].items :
        carts[i].items[j].quantity >= 1
  /\ \A i \in DOMAIN orders :
        /\ \A j \in DOMAIN orders[i].items : orders[i].items[j].quantity >= 1
        /\ orders[i].totalAmount >= 0

\* an addItem that passed -1 for a product with 2 in the cart has written 1
C17_Witness ==
  \E r \in Reqs :
     /\ req[r].op = "addItem" /\ req[r].pc = "populate"
     /\ req[r].quantity = [has |-> TRUE, val |-> -1]
     /\ Len(LinesOf(CartLines(carts, req[r].user), req[r].product)) = 1
     /\ LinesOf(CartLines(carts, req[r].user), req[r].product)[1].quantity = 1

ClientOps == {"addItem", "removeItem", "increaseItem", "getCart", "addAddress",
              "placeOrder", "listOrders"}

\* this step is a step of a client request of user u
C18_Acts(u) ==
  \/ \E r \in Reqs : req'[r] # req[r] /\ InFlight(r) /\ req[r].user = u
  \/ \E r \in Reqs : req'[r] # req[r] /\ ~InFlight(r) /\ req'[r].user = u
  \/ req' = req /\ last'.op \in ClientOps /\ last'.user = u

\* the documents of collection c that user v owns are the same before and
\* after this step
C18_Kept(before, after, v) ==
  /\ \A i \in DOMAIN before :
        before[i].user = v => i \in DOMAIN after /\ after[i] = before[i]
  /\ \A i \in DOMAIN after : after[i].user = v => i \in DOMAIN before

\* C18: a step of a cart, address or order request of user u leaves the
\* carts, addresses and orders of every other user and the products as they
\* are; and a getCart changes no document at all, so it creates no cart.
C18_OtherUsersUntouched ==
  [][/\ \A u \in Users :
          C18_Acts(u) =>
             /\ catalog' = catalog
             /\ \A v \in Users \ {u} :
                  /\ C18_Kept(carts, carts', v)
                  /\ C18_Kept(addresses, addresses', v)
                  /\ C18_Kept(orders, orders', v)
     /\ (req' = req /\ last'.op \in {"getCart", "listOrders"}) =>
          /\ StoreUnchanged
          /\ catalog' = catalog
  ]_vars

\* u2 owns a cart with a line, an address and an order; u1, who has added a
\* default address and never a cart line, has just read its cart: u1 has no
\* cart, and what u2 owns is as u2 left it
C18_Witness ==
  /\ last = [op |-> "getCart", user |-> "u1", status |-> 200]
  /\ FindCart(carts, "u1") = 0
  /\ Len(CartLines(carts, "u2")) = 1
  /\ addresses[2] = [user |-> "u2", isDefault |-> FALSE]
  /\ \E i \in DOMAIN addresses : i > 2 /\ addresses[i].user = "u1" /\ addresses[i].isDefault
  /\ \E i \in DOMAIN orders : orders[i].user = "u2" /\ orders[i].address = 2

====
